---- MODULE Spec2Model ----
(***************************************************************************)
(* pdf_split: main -> process_directory -> process_pdf, with the worker    *)
(* lambda, PageResultQueue and writer_thread of src/pdf_split/pdf_split.cpp*)
(*                                                                         *)
(* Threads are interleaved at their shared accesses: the atomic fetch_add  *)
(* on current_page, every acquisition of PageResultQueue::mutex_, every    *)
(* critical section, the condition variable's wait and wake-up, and the    *)
(* writer's filesystem work.  Thread-local code between two shared         *)
(* accesses is part of the step that precedes it.                          *)
(***************************************************************************)
EXTENDS Integers, Sequences, FiniteSets

\* ----------------------------------------------------------------------
\* Bounds of the model
\* ----------------------------------------------------------------------
\* Largest thread_count argument (worker threads of one document).
MaxWorkers == 2
\* Pages held by all documents of the input directory together.
MaxPages == 2
\* Entries of the input directory.
MaxEntries == 2

\* Threads of the PageResultQueue test harness, and the items they push.
MaxClients == 3
MaxItems == 2

\* argc of the usage test at line 162.
MinArgc == 4

Workers == 1..MaxWorkers
\* Values fetch_add can return: every page, and one more per worker.
Indexes == 0..(MaxPages + MaxWorkers - 1)
ThreadArgs == (-1)..MaxWorkers
Argcs == (MinArgc - 1)..(MinArgc + 1)
Clients == 1..MaxClients
Items == 1..MaxItems

\* Thread identities, for mutex_ ownership and the condition variable.
NoThread == <<"none", 0>>
MainT == <<"main", 0>>
WriterT == <<"writer", 0>>
WorkerT(w) == <<"worker", w>>
ClientT(c) == <<"client", c>>

\* A PageResult not holding a page (the writer's local before its first pop).
NoResult == [pdf_name |-> 0, page_id |-> -1, text |-> <<>>]

\* The UTF-8 text of page p of document d (poppler's page->text().to_utf8()).
PageText(d, p) == <<d, p>>

VARIABLES
    \* command line and input directory (the program's inputs)
    argc,           \* argc of main (0 once main is past its use of it)
    argv_threads,   \* argv[3] as std::stoi reads it
    input_ok,       \* fs::exists(input_dir) && fs::is_directory(input_dir)
    entry_no,       \* directory entries the directory_iterator has yielded
    pages_left,     \* pages the documents not yet opened may still hold
    \* main / process_directory / process_pdf
    main_pc,
    exit_code,      \* -1 while main has not returned
    thread_count,
    out_created,    \* fs::create_directories(output_dir) has run
    cerr,           \* documents reported by "Failed to open PDF" (line 109)
    pdf_name,       \* stem of the document being processed (0: none)
    num_pages,
    current_page,   \* std::atomic<int> current_page
    spawned,        \* i of the loop at line 133
    \* worker threads
    wpc,
    page_id,
    \* PageResultQueue
    queue_,
    finished_,
    mutex_,
    waiters,        \* threads blocked in cond_var_.wait
    \* writer thread
    writer_pc,
    result,
    \* filesystem under output_dir: <<pdf_name, page_id>> -> text_layer.txt
    files,
    \* history of the current document's pipeline
    claimed,        \* page index -> number of fetch_add calls that returned it
    pushed,         \* page index -> number of push calls for it
    written,        \* page index -> number of times the writer wrote it
    failed,         \* page indices for which create_page returned null
    \* threads calling a PageResultQueue directly (the harness)
    cpc,            \* client -> the call it is in
    cret,           \* client -> what its last pop returned
    citem,          \* client -> the item it is pushing
    next_item,      \* items pushed or being pushed
    popped,         \* item -> number of pop calls that returned it
    ended,          \* some pop has returned false
    late_push,      \* an item was pushed after a pop returned false
    refinished      \* set_finished has run on a finished queue

vars == <<argc, argv_threads, input_ok, entry_no, pages_left, main_pc, exit_code,
          thread_count, out_created, cerr, pdf_name, num_pages, current_page, spawned,
          wpc, page_id, queue_, finished_, mutex_, waiters, writer_pc, result,
          files, claimed, pushed, written, failed,
          cpc, cret, citem, next_item, popped, ended, late_push, refinished>>

clientVars == <<cpc, cret, citem, next_item, popped, ended, late_push, refinished>>
inputVars == <<argc, argv_threads, input_ok, clientVars>>
envVars == <<inputVars, cerr>>
chanVars == <<queue_, finished_, mutex_, waiters>>
histVars == <<claimed, pushed, written, failed>>

ZeroCount == [p \in Indexes |-> 0]
Bump(f, p) == IF p \in DOMAIN f THEN [f EXCEPT ![p] = @ + 1] ELSE f

\* ----------------------------------------------------------------------
\* PageResultQueue (lines 52-80), for a calling thread t
\* ----------------------------------------------------------------------
\* std::unique_lock<std::mutex> lock(mutex_)
lock(t) == mutex_ = NoThread /\ mutex_' = t

\* the unique_lock's destructor
unlock(t) == mutex_ = t /\ mutex_' = NoThread

\* cond_var_.notify_one(): one blocked thread, if any, stops waiting
notify_one ==
    IF waiters = {} THEN waiters' = waiters
    ELSE \E c \in waiters : waiters' = waiters \ {c}

\* line 72 left out: nobody is woken
notify_nobody == waiters' = waiters

\* line 72 calling notify_one: one blocked thread is woken, the rest sleep on
notify_all_wakes_one ==
    IF waiters = {} THEN waiters' = waiters
    ELSE \E c \in waiters : waiters' = waiters \ {c}

\* cond_var_.notify_all()
notify_all == waiters' = {}

\* push testing finished_ first and dropping the item of a finished queue
push_unless_finished(t, r) ==
    /\ queue_' = IF finished_ THEN queue_ ELSE Append(queue_, r)
    /\ notify_one
    /\ unlock(t)
    /\ UNCHANGED finished_

\* push, holding the lock: lines 56-58
push(t, r) ==
    /\ queue_' = Append(queue_, r)
    /\ notify_one
    /\ unlock(t)
    /\ UNCHANGED finished_

\* line 62 without a wait: pop goes on at once
pop_pred_no_wait == TRUE

\* the predicate of the wait at line 62
pop_pred == queue_ /= <<>> \/ finished_

\* line 62 blocking without giving up the mutex
pop_wait_keeps_mutex(t) ==
    /\ ~pop_pred
    /\ waiters' = waiters \cup {t}
    /\ UNCHANGED <<queue_, finished_, mutex_>>

\* pop at line 62 with the predicate false: wait releases the mutex and blocks
pop_wait(t) ==
    /\ ~pop_pred
    /\ waiters' = waiters \cup {t}
    /\ unlock(t)
    /\ UNCHANGED <<queue_, finished_>>

\* pop testing finished_ at line 63: false although an item is queued
pop_end_when_finished(t) ==
    /\ pop_pred
    /\ (queue_ = <<>> \/ finished_)
    /\ unlock(t)
    /\ UNCHANGED <<queue_, finished_, waiters>>

\* line 63 consuming the end signal: finished_ is reset as false is returned
pop_end_once(t) ==
    /\ pop_pred
    /\ queue_ = <<>>
    /\ finished_' = FALSE
    /\ unlock(t)
    /\ UNCHANGED <<queue_, waiters>>

\* pop past the wait, queue empty: line 63, return false
pop_end(t) ==
    /\ pop_pred
    /\ queue_ = <<>>
    /\ unlock(t)
    /\ UNCHANGED <<queue_, finished_, waiters>>

\* pop past the wait, queue not empty: lines 64-66, return true
pop_item(t) ==
    /\ pop_pred
    /\ queue_ /= <<>>
    /\ queue_' = Tail(queue_)
    /\ unlock(t)
    /\ UNCHANGED <<finished_, waiters>>

\* line 71 flipping the flag instead of setting it
set_finished_toggle(t) ==
    /\ finished_' = ~finished_
    /\ notify_all
    /\ unlock(t)
    /\ UNCHANGED queue_

\* set_finished, holding the lock: lines 71-72
set_finished(t) ==
    /\ finished_' = TRUE
    /\ notify_all
    /\ unlock(t)
    /\ UNCHANGED queue_

\* a thread woken from cond_var_.wait takes the mutex again before it
\* evaluates the predicate
MayLock(t, pc) == pc = "pop_lock" \/ (pc = "pop_wait" /\ t \notin waiters)

\* ----------------------------------------------------------------------
\* Initial state: main is entered with some command line
\* ----------------------------------------------------------------------
NoClients ==
    /\ cpc = [c \in Clients |-> "ready"]
    /\ cret = [c \in Clients |-> "none"]
    /\ citem = [c \in Clients |-> 0]
    /\ next_item = 0
    /\ popped = [k \in Items |-> 0]
    /\ ended = FALSE
    /\ late_push = FALSE
    /\ refinished = FALSE

NoPipeline ==
    /\ entry_no = 0
    /\ pages_left = MaxPages
    /\ main_pc = "main"
    /\ exit_code = -1
    /\ thread_count = 0
    /\ out_created = FALSE
    /\ cerr = {}
    /\ pdf_name = 0
    /\ num_pages = 0
    /\ current_page = 0
    /\ spawned = 0
    /\ wpc = [w \in Workers |-> "idle"]
    /\ page_id = [w \in Workers |-> -1]
    /\ queue_ = <<>>
    /\ finished_ = FALSE
    /\ mutex_ = NoThread
    /\ waiters = {}
    /\ writer_pc = "idle"
    /\ result = NoResult
    /\ files = {}
    /\ claimed = ZeroCount
    /\ pushed = ZeroCount
    /\ written = ZeroCount
    /\ failed = {}

Init ==
    /\ argc \in Argcs
    /\ argv_threads \in ThreadArgs
    /\ input_ok \in BOOLEAN
    /\ NoPipeline
    /\ NoClients

pdfVars == <<pdf_name, num_pages, current_page, spawned>>
threadVars == <<wpc, page_id, writer_pc, result>>

\* ----------------------------------------------------------------------
\* main (lines 160-182)
\* ----------------------------------------------------------------------
\* lines 162-165: too few arguments
main_usage ==
    /\ main_pc = "main"
    /\ argc < MinArgc
    /\ main_pc' = "exit"
    /\ exit_code' = 1
    /\ UNCHANGED <<envVars, entry_no, pages_left, thread_count, out_created,
                   pdfVars, threadVars, chanVars, files, histVars>>

\* lines 166-174: the input directory is missing or not a directory
main_no_input ==
    /\ main_pc = "main"
    /\ argc >= MinArgc
    /\ ~input_ok
    /\ thread_count' = argv_threads
    /\ main_pc' = "exit"
    /\ exit_code' = 1
    /\ UNCHANGED <<envVars, entry_no, pages_left, out_created,
                   pdfVars, threadVars, chanVars, files, histVars>>

\* lines 166-179: create the output directory and enter process_directory.
\* argc is not read after line 162: it is forgotten here, so that runs which
\* differ only in surplus arguments go through the same states.
main_start ==
    /\ main_pc = "main"
    /\ argc >= MinArgc
    /\ input_ok
    /\ argc' = 0
    /\ thread_count' = argv_threads
    /\ out_created' = TRUE
    /\ main_pc' = "iter"
    /\ UNCHANGED <<argv_threads, input_ok, clientVars, cerr, entry_no,
                   pages_left, exit_code, pdfVars, threadVars, chanVars, files,
                   histVars>>

\* ----------------------------------------------------------------------
\* process_directory (lines 152-158)
\* ----------------------------------------------------------------------
\* the iterator is exhausted: process_directory returns, main returns 0
process_directory_end ==
    /\ main_pc = "iter"
    /\ main_pc' = "exit"
    /\ exit_code' = 0
    /\ UNCHANGED <<envVars, entry_no, pages_left, thread_count, out_created,
                   pdfVars, threadVars, chanVars, files, histVars>>

\* line 154 false: not a regular file, or its extension is not ".pdf"
process_directory_skip ==
    /\ main_pc = "iter"
    /\ entry_no < MaxEntries
    /\ entry_no' = entry_no + 1
    /\ UNCHANGED <<envVars, pages_left, main_pc, exit_code, thread_count,
                   out_created, pdfVars, threadVars, chanVars, files, histVars>>

\* ----------------------------------------------------------------------
\* process_pdf (lines 103-150)
\* ----------------------------------------------------------------------
\* lines 108-111 ending the run: the failed document is fatal
process_pdf_no_doc_fatal ==
    /\ main_pc = "iter"
    /\ entry_no < MaxEntries
    /\ entry_no' = entry_no + 1
    /\ cerr' = cerr \cup {entry_no + 1}
    /\ main_pc' = "exit"
    /\ exit_code' = 1
    /\ UNCHANGED <<inputVars, pages_left, thread_count,
                   out_created, pdfVars, threadVars, chanVars, files, histVars>>

\* lines 104-111: load_from_file returns null, process_pdf returns
process_pdf_no_doc ==
    /\ main_pc = "iter"
    /\ entry_no < MaxEntries
    /\ entry_no' = entry_no + 1
    /\ cerr' = cerr \cup {entry_no + 1}
    /\ UNCHANGED <<inputVars, pages_left, main_pc, exit_code, thread_count,
                   out_created, pdfVars, threadVars, chanVars, files, histVars>>

\* lines 104-115: the document opens; its page count is read, the counter
\* and the queue are constructed
process_pdf_open ==
    /\ main_pc = "iter"
    /\ entry_no < MaxEntries
    /\ entry_no' = entry_no + 1
    /\ pdf_name' = entry_no + 1
    /\ \E n \in 0..pages_left :
        /\ num_pages' = n
        /\ pages_left' = pages_left - n
    /\ current_page' = 0
    /\ spawned' = 0
    /\ queue_' = <<>>
    /\ finished_' = FALSE
    /\ mutex_' = NoThread
    /\ waiters' = {}
    /\ main_pc' = "spawn"
    /\ UNCHANGED <<envVars, exit_code, thread_count, out_created,
                   threadVars, files, histVars>>

\* line 133 testing i <= thread_count: one worker too many
spawn_worker_one_more ==
    /\ main_pc = "spawn"
    /\ spawned <= thread_count
    /\ spawned < MaxWorkers
    /\ spawned' = spawned + 1
    /\ wpc' = [wpc EXCEPT ![spawned + 1] = "fetch"]
    /\ UNCHANGED <<envVars, entry_no, pages_left, main_pc, exit_code,
                   thread_count, out_created, pdf_name, num_pages, current_page,
                   page_id, writer_pc, result, chanVars, files, histVars>>

\* lines 133-135: one more worker thread starts
spawn_worker ==
    /\ main_pc = "spawn"
    /\ spawned < thread_count
    /\ spawned' = spawned + 1
    /\ wpc' = [wpc EXCEPT ![spawned + 1] = "fetch"]
    /\ UNCHANGED <<envVars, entry_no, pages_left, main_pc, exit_code,
                   thread_count, out_created, pdf_name, num_pages, current_page,
                   page_id, writer_pc, result, chanVars, files, histVars>>

\* line 138: the loop is over, the writer thread starts
spawn_writer ==
    /\ main_pc = "spawn"
    /\ ~(spawned < thread_count)
    /\ writer_pc' = "pop_lock"
    /\ main_pc' = "join_workers"
    /\ UNCHANGED <<envVars, entry_no, pages_left, exit_code, thread_count,
                   out_created, pdfVars, wpc, page_id, result, chanVars, files,
                   histVars>>

\* lines 141-143 left out: set_finished is reached with workers running
join_workers_skipped ==
    /\ main_pc = "join_workers"
    /\ main_pc' = "finish_lock"
    /\ UNCHANGED <<envVars, entry_no, pages_left, exit_code, thread_count,
                   out_created, pdfVars, threadVars, chanVars, files, histVars>>

\* lines 141-143: every join of the loop has returned
join_workers ==
    /\ main_pc = "join_workers"
    /\ \A w \in Workers : wpc[w] \in {"idle", "done"}
    /\ main_pc' = "finish_lock"
    /\ UNCHANGED <<envVars, entry_no, pages_left, exit_code, thread_count,
                   out_created, pdfVars, threadVars, chanVars, files, histVars>>

\* line 146, set_finished: line 70
finish_lock ==
    /\ main_pc = "finish_lock"
    /\ lock(MainT)
    /\ main_pc' = "finish"
    /\ UNCHANGED <<envVars, entry_no, pages_left, exit_code, thread_count,
                   out_created, pdfVars, threadVars, queue_, finished_, waiters,
                   files, histVars>>

\* line 146, set_finished: lines 71-73
finish ==
    /\ main_pc = "finish"
    /\ set_finished(MainT)
    /\ main_pc' = "join_writer"
    /\ UNCHANGED <<envVars, entry_no, pages_left, exit_code, thread_count,
                   out_created, pdfVars, threadVars, files, histVars>>

\* line 147: writer.join() returns
join_writer ==
    /\ main_pc = "join_writer"
    /\ writer_pc = "done"
    /\ main_pc' = "delete_doc"
    /\ UNCHANGED <<envVars, entry_no, pages_left, exit_code, thread_count,
                   out_created, pdfVars, threadVars, chanVars, files, histVars>>

\* lines 149-150: process_pdf returns; its locals and threads are gone
process_pdf_return ==
    /\ main_pc = "delete_doc"
    /\ main_pc' = "iter"
    /\ pdf_name' = 0
    /\ num_pages' = 0
    /\ current_page' = 0
    /\ spawned' = 0
    /\ wpc' = [w \in Workers |-> "idle"]
    /\ page_id' = [w \in Workers |-> -1]
    /\ writer_pc' = "idle"
    /\ result' = NoResult
    /\ queue_' = <<>>
    /\ finished_' = FALSE
    /\ mutex_' = NoThread
    /\ waiters' = {}
    /\ claimed' = ZeroCount
    /\ pushed' = ZeroCount
    /\ written' = ZeroCount
    /\ failed' = {}
    /\ UNCHANGED <<envVars, entry_no, pages_left, exit_code, thread_count,
                   out_created, files>>

\* ----------------------------------------------------------------------
\* the worker lambda (lines 118-130), thread w
\* ----------------------------------------------------------------------
\* line 120 as a plain load and store: the increment of a worker is lost
\* when another worker is between its own load and store
worker_fetch_not_atomic(w) ==
    /\ wpc[w] = "fetch"
    /\ page_id' = [page_id EXCEPT ![w] = current_page]
    /\ current_page' = IF \E v \in Workers \ {w} : wpc[v] = "fetch"
                        THEN current_page
                        ELSE current_page + 1
    /\ claimed' = Bump(claimed, current_page)
    /\ wpc' = [wpc EXCEPT ![w] = IF current_page >= num_pages THEN "done"
                                 ELSE "create_page"]
    /\ UNCHANGED <<envVars, entry_no, pages_left, main_pc, exit_code,
                   thread_count, out_created, pdf_name, num_pages, spawned,
                   writer_pc, result, chanVars, files, pushed, written, failed>>

\* line 120 reading the counter and incrementing it only for an index that
\* passes the test of line 121
worker_fetch_no_last_increment(w) ==
    /\ wpc[w] = "fetch"
    /\ page_id' = [page_id EXCEPT ![w] = current_page]
    /\ current_page' = IF current_page >= num_pages THEN current_page
                        ELSE current_page + 1
    /\ claimed' = Bump(claimed, current_page)
    /\ wpc' = [wpc EXCEPT ![w] = IF current_page >= num_pages THEN "done"
                                 ELSE "create_page"]
    /\ UNCHANGED <<envVars, entry_no, pages_left, main_pc, exit_code,
                   thread_count, out_created, pdf_name, num_pages, spawned,
                   writer_pc, result, chanVars, files, pushed, written, failed>>

\* line 121 testing id > num_pages: index num_pages is taken for a page
worker_fetch_off_by_one(w) ==
    /\ wpc[w] = "fetch"
    /\ page_id' = [page_id EXCEPT ![w] = current_page]
    /\ current_page' = current_page + 1
    /\ claimed' = Bump(claimed, current_page)
    /\ wpc' = [wpc EXCEPT ![w] = IF current_page > num_pages THEN "done"
                                 ELSE "create_page"]
    /\ UNCHANGED <<envVars, entry_no, pages_left, main_pc, exit_code,
                   thread_count, out_created, pdf_name, num_pages, spawned,
                   writer_pc, result, chanVars, files, pushed, written, failed>>

\* lines 120-121: claim an index; leave the loop when it is past the end
worker_fetch(w) ==
    /\ wpc[w] = "fetch"
    /\ page_id' = [page_id EXCEPT ![w] = current_page]
    /\ current_page' = current_page + 1
    /\ claimed' = Bump(claimed, current_page)
    /\ wpc' = [wpc EXCEPT ![w] = IF current_page >= num_pages THEN "done"
                                 ELSE "create_page"]
    /\ UNCHANGED <<envVars, entry_no, pages_left, main_pc, exit_code,
                   thread_count, out_created, pdf_name, num_pages, spawned,
                   writer_pc, result, chanVars, files, pushed, written, failed>>

\* line 124 with a break for the null page: the worker leaves the loop
worker_no_page_break(w) ==
    /\ wpc[w] = "create_page"
    /\ failed' = failed \cup {page_id[w]}
    /\ wpc' = [wpc EXCEPT ![w] = "done"]
    /\ UNCHANGED <<envVars, entry_no, pages_left, main_pc, exit_code,
                   thread_count, out_created, pdfVars, page_id, writer_pc,
                   result, chanVars, files, claimed, pushed, written>>

\* lines 123-124: create_page returns null; back to the top of the loop
worker_no_page(w) ==
    /\ wpc[w] = "create_page"
    /\ failed' = failed \cup {page_id[w]}
    /\ wpc' = [wpc EXCEPT ![w] = "fetch"]
    /\ UNCHANGED <<envVars, entry_no, pages_left, main_pc, exit_code,
                   thread_count, out_created, pdfVars, page_id, writer_pc,
                   result, chanVars, files, claimed, pushed, written>>

\* lines 123-126: the page opens, process_page builds the result, push
\* takes the mutex (line 55)
worker_push_lock(w) ==
    /\ wpc[w] = "create_page"
    /\ lock(WorkerT(w))
    /\ wpc' = [wpc EXCEPT ![w] = "push"]
    /\ UNCHANGED <<envVars, entry_no, pages_left, main_pc, exit_code,
                   thread_count, out_created, pdfVars, page_id, writer_pc,
                   result, queue_, finished_, waiters, files, histVars>>

\* process_page returning at line 31 for an open page too: the text is lost
process_page_no_text(name, id) ==
    [pdf_name |-> name, page_id |-> id, text |-> <<>>]

\* process_page (lines 26-49) for an open page
process_page(name, id) ==
    [pdf_name |-> name, page_id |-> id, text |-> PageText(name, id)]

\* lines 126-127 with the worker writing its page itself as it pushes
worker_push_and_write(w) ==
    /\ wpc[w] = "push"
    /\ push(WorkerT(w), process_page(pdf_name, page_id[w]))
    /\ pushed' = Bump(pushed, page_id[w])
    /\ files' = files \cup {process_page(pdf_name, page_id[w])}
    /\ wpc' = [wpc EXCEPT ![w] = "fetch"]
    /\ UNCHANGED <<envVars, entry_no, pages_left, main_pc, exit_code,
                   thread_count, out_created, pdfVars, page_id, writer_pc,
                   result, claimed, written, failed>>

\* lines 126-127: push (lines 56-58), delete page, back to the top
worker_push(w) ==
    /\ wpc[w] = "push"
    /\ push(WorkerT(w), process_page(pdf_name, page_id[w]))
    /\ pushed' = Bump(pushed, page_id[w])
    /\ wpc' = [wpc EXCEPT ![w] = "fetch"]
    /\ UNCHANGED <<envVars, entry_no, pages_left, main_pc, exit_code,
                   thread_count, out_created, pdfVars, page_id, writer_pc,
                   result, files, claimed, written, failed>>

\* ----------------------------------------------------------------------
\* writer_thread (lines 82-101)
\* ----------------------------------------------------------------------
\* line 84, pop: line 61, or the wait at line 62 taking the mutex again
writer_lock ==
    /\ MayLock(WriterT, writer_pc)
    /\ lock(WriterT)
    /\ writer_pc' = "pop"
    /\ UNCHANGED <<envVars, entry_no, pages_left, main_pc, exit_code,
                   thread_count, out_created, pdfVars, wpc, page_id, result,
                   queue_, finished_, waiters, files, histVars>>

\* line 84, pop: the wait at line 62 blocks
writer_wait ==
    /\ writer_pc = "pop"
    /\ pop_wait(WriterT)
    /\ writer_pc' = "pop_wait"
    /\ UNCHANGED <<envVars, entry_no, pages_left, main_pc, exit_code,
                   thread_count, out_created, pdfVars, wpc, page_id, result,
                   files, histVars>>

\* line 84, pop returns true with the front of the queue
writer_pop ==
    /\ writer_pc = "pop"
    /\ pop_item(WriterT)
    /\ result' = Head(queue_)
    /\ writer_pc' = "write"
    /\ UNCHANGED <<envVars, entry_no, pages_left, main_pc, exit_code,
                   thread_count, out_created, pdfVars, wpc, page_id, files,
                   histVars>>

\* line 84, pop returns false: the loop and the thread end
writer_end ==
    /\ writer_pc = "pop"
    /\ pop_end(WriterT)
    /\ writer_pc' = "done"
    /\ UNCHANGED <<envVars, entry_no, pages_left, main_pc, exit_code,
                   thread_count, out_created, pdfVars, wpc, page_id, result,
                   files, histVars>>

\* lines 86-92: text_layer.txt of directory <pdf_name>/<page_id>, truncated
\* and rewritten with r.text
write_page(fs, r) ==
    {f \in fs : ~(f.pdf_name = r.pdf_name /\ f.page_id = r.page_id)} \cup {r}

\* lines 86-100: one pass of the loop body; result is dead until the next pop
writer_write ==
    /\ writer_pc = "write"
    /\ files' = write_page(files, result)
    /\ written' = Bump(written, result.page_id)
    /\ result' = NoResult
    /\ writer_pc' = "pop_lock"
    /\ UNCHANGED <<envVars, entry_no, pages_left, main_pc, exit_code,
                   thread_count, out_created, pdfVars, wpc, page_id, chanVars,
                   claimed, pushed, failed>>

\* a spurious wake-up of the wait at line 62
spurious_wakeup ==
    /\ \E t \in waiters : waiters' = waiters \ {t}
    /\ UNCHANGED <<envVars, entry_no, pages_left, main_pc, exit_code,
                   thread_count, out_created, pdfVars, threadVars, queue_,
                   finished_, mutex_, files, histVars>>

\* ----------------------------------------------------------------------
\* The program
\* ----------------------------------------------------------------------
MainStep ==
    \/ main_usage
    \/ main_no_input
    \/ main_start
    \/ process_directory_end
    \/ process_directory_skip
    \/ process_pdf_no_doc
    \/ process_pdf_open
    \/ spawn_worker
    \/ spawn_writer
    \/ join_workers
    \/ finish_lock
    \/ finish
    \/ join_writer
    \/ process_pdf_return

WorkerStep(w) ==
    \/ worker_fetch(w)
    \/ worker_no_page(w)
    \/ worker_push_lock(w)
    \/ worker_push(w)

WriterStep ==
    \/ writer_lock
    \/ writer_wait
    \/ writer_pop
    \/ writer_end
    \/ writer_write

Next ==
    \/ MainStep
    \/ \E w \in Workers : WorkerStep(w)
    \/ WriterStep
    \/ spurious_wakeup

Spec == Init /\ [][Next]_vars

\* Fair scheduling: a thread that can run again and again does run, and a
\* thread that tries again and again to take mutex_ gets it.  The workers
\* are fair as a pool.  Nothing is assumed of spurious wake-ups.
FairSpec ==
    /\ Spec
    /\ SF_vars(MainStep)
    /\ SF_vars(\E w \in Workers : WorkerStep(w))
    /\ SF_vars(WriterStep)

\* ----------------------------------------------------------------------
\* A PageResultQueue called directly: Clients threads, each calling push,
\* pop and set_finished in any order (no thread of the program runs)
\* ----------------------------------------------------------------------
pipeVars == <<argc, argv_threads, input_ok, entry_no, pages_left, main_pc,
              exit_code, thread_count, out_created, cerr, pdfVars, threadVars,
              files, histVars>>

InitChan ==
    /\ argc = MinArgc
    /\ argv_threads = 0
    /\ input_ok = TRUE
    /\ NoPipeline
    /\ NoClients

\* push is called with a new item: line 55
client_push_lock(c) ==
    /\ cpc[c] = "ready"
    /\ next_item < MaxItems
    /\ lock(ClientT(c))
    /\ next_item' = next_item + 1
    /\ citem' = [citem EXCEPT ![c] = next_item + 1]
    /\ cpc' = [cpc EXCEPT ![c] = "push"]
    /\ cret' = [cret EXCEPT ![c] = "none"]
    /\ UNCHANGED <<pipeVars, queue_, finished_, waiters, popped, ended,
                   late_push, refinished>>

\* push: lines 56-58
client_push(c) ==
    /\ cpc[c] = "push"
    /\ push(ClientT(c), process_page(0, citem[c]))
    /\ late_push' = (late_push \/ ended)
    /\ cpc' = [cpc EXCEPT ![c] = "ready"]
    /\ UNCHANGED <<pipeVars, cret, citem, next_item, popped, ended, refinished>>

\* pop is called: line 61
client_pop_lock(c) ==
    /\ cpc[c] = "ready"
    /\ lock(ClientT(c))
    /\ cpc' = [cpc EXCEPT ![c] = "pop"]
    /\ cret' = [cret EXCEPT ![c] = "none"]
    /\ UNCHANGED <<pipeVars, queue_, finished_, waiters, citem, next_item,
                   popped, ended, late_push, refinished>>

\* pop: the wait at line 62 takes the mutex again after a wake-up
client_pop_relock(c) ==
    /\ cpc[c] = "pop_wait"
    /\ MayLock(ClientT(c), cpc[c])
    /\ lock(ClientT(c))
    /\ cpc' = [cpc EXCEPT ![c] = "pop"]
    /\ UNCHANGED <<pipeVars, queue_, finished_, waiters, cret, citem, next_item,
                   popped, ended, late_push, refinished>>

\* pop: the wait at line 62 blocks
client_pop_wait(c) ==
    /\ cpc[c] = "pop"
    /\ pop_wait(ClientT(c))
    /\ cpc' = [cpc EXCEPT ![c] = "pop_wait"]
    /\ UNCHANGED <<pipeVars, cret, citem, next_item, popped, ended, late_push,
                   refinished>>

\* pop returns true: lines 64-66
client_pop_item(c) ==
    /\ cpc[c] = "pop"
    /\ pop_item(ClientT(c))
    /\ popped' = Bump(popped, Head(queue_).page_id)
    /\ cret' = [cret EXCEPT ![c] = "true"]
    /\ cpc' = [cpc EXCEPT ![c] = "ready"]
    /\ UNCHANGED <<pipeVars, citem, next_item, ended, late_push, refinished>>

\* pop returns false: line 63
client_pop_end(c) ==
    /\ cpc[c] = "pop"
    /\ pop_end(ClientT(c))
    /\ ended' = TRUE
    /\ cret' = [cret EXCEPT ![c] = "false"]
    /\ cpc' = [cpc EXCEPT ![c] = "ready"]
    /\ UNCHANGED <<pipeVars, citem, next_item, popped, late_push, refinished>>

\* set_finished is called: line 70
client_finish_lock(c) ==
    /\ cpc[c] = "ready"
    /\ lock(ClientT(c))
    /\ cpc' = [cpc EXCEPT ![c] = "finish"]
    /\ cret' = [cret EXCEPT ![c] = "none"]
    /\ UNCHANGED <<pipeVars, queue_, finished_, waiters, citem, next_item,
                   popped, ended, late_push, refinished>>

\* set_finished: lines 71-73
client_finish(c) ==
    /\ cpc[c] = "finish"
    /\ set_finished(ClientT(c))
    /\ refinished' = (refinished \/ finished_)
    /\ cpc' = [cpc EXCEPT ![c] = "ready"]
    /\ UNCHANGED <<pipeVars, cret, citem, next_item, popped, ended, late_push>>

ClientStep(c) ==
    \/ client_push_lock(c)
    \/ client_push(c)
    \/ client_pop_lock(c)
    \/ client_pop_relock(c)
    \/ client_pop_wait(c)
    \/ client_pop_item(c)
    \/ client_pop_end(c)
    \/ client_finish_lock(c)
    \/ client_finish(c)

NextChan ==
    \/ \E c \in Clients : ClientStep(c)
    \/ spurious_wakeup

SpecChan == InitChan /\ [][NextChan]_vars

\* ----------------------------------------------------------------------
\* Properties
\* ----------------------------------------------------------------------
\* process_pdf is at its last statement: both joins have returned
Returning == main_pc = "delete_doc"

\* what the writer has left under <output_dir>/<pdf_name>/
DocFiles == {f \in files : f.pdf_name = pdf_name}

\* text_layer.txt of page p of the current document, holding the page's text
PageFile(p) == [pdf_name |-> pdf_name, page_id |-> p, text |-> PageText(pdf_name, p)]

\* occurrences of page index p in the queue
InQueue(p) == Cardinality({i \in DOMAIN queue_ : queue_[i].page_id = p})

\* C1 (completeness): when process_pdf returns from a document of P pages,
\* all of which create_page opened, run with at least one worker, exactly one
\* PageResult per page 0..P-1 has been pushed and none for any other index,
\* and the document's directory holds exactly the page directories 0..P-1,
\* each with a text_layer.txt holding that page's text.
C1_Completeness ==
    (Returning /\ thread_count >= 1 /\ failed = {}) =>
        /\ \A p \in Indexes : pushed[p] = IF p < num_pages THEN 1 ELSE 0
        /\ DocFiles = {PageFile(p) : p \in 0..(num_pages - 1)}

C1_Witness ==
    /\ Returning
    /\ thread_count >= 2
    /\ failed = {}
    /\ num_pages >= 2
    /\ DocFiles = {PageFile(p) : p \in 0..(num_pages - 1)}

\* C2 (exactly-once delivery): at every moment each pushed PageResult is
\* either still queued, or held by the writer between its pop and its write,
\* or written once; it is never written more often than pushed.  When
\* process_pdf returns the queue is empty, the writer holds nothing and every
\* pushed result has been written exactly as often as it was pushed.
C2_ExactlyOnce ==
    /\ \A p \in Indexes :
        pushed[p] = written[p] + InQueue(p)
                    + (IF writer_pc = "write" /\ result.page_id = p THEN 1 ELSE 0)
    /\ Returning =>
        /\ queue_ = <<>>
        /\ result = NoResult
        /\ \A p \in Indexes : written[p] = pushed[p]

C2_Witness ==
    /\ Returning
    /\ \E p \in Indexes, q \in Indexes : p /= q /\ written[p] = 1 /\ written[q] = 1

\* every worker thread of the current document has left its loop
WorkersDone ==
    /\ main_pc \in {"finish_lock", "finish", "join_writer", "delete_doc"}
    /\ thread_count >= 1

\* C3 (unique and exhaustive page claims): no index is ever returned by two
\* fetch_add calls, two workers never hold the same index, no page is pushed
\* twice, and once the workers have exited every index of [0, num_pages) has
\* been returned exactly once.
C3_UniqueClaims ==
    /\ \A p \in Indexes : claimed[p] <= 1 /\ pushed[p] <= 1
    /\ \A w \in Workers, v \in Workers :
        (w /= v /\ wpc[w] \in {"create_page", "push"}
                /\ wpc[v] \in {"create_page", "push"}) => page_id[w] /= page_id[v]
    /\ WorkersDone => \A p \in 0..(num_pages - 1) : claimed[p] = 1

C3_Witness ==
    /\ WorkersDone
    /\ thread_count >= 2
    /\ num_pages >= 2
    /\ \A p \in 0..(num_pages - 1) : claimed[p] = 1

\* the threads of the current document have all exited
ThreadsGone ==
    /\ writer_pc = "done"
    /\ \A w \in Workers : wpc[w] \in {"idle", "done"}

\* C4 (termination): under fair scheduling, for every worker count and every
\* page count (0 included), a pipeline that has been set up runs until every
\* worker and the writer have exited and process_pdf is at its return, and
\* main returns: no thread waits forever on the condition variable or in a
\* join.
C4_Termination ==
    /\ (main_pc = "spawn") ~> (Returning /\ ThreadsGone)
    /\ <>(main_pc = "exit")

C4_Witness ==
    /\ main_pc = "exit"
    /\ thread_count >= 2
    /\ entry_no = MaxEntries
    /\ files /= {}

\* the step in which create_page returns null to worker w
NoPageStep(w) == wpc[w] = "create_page" /\ page_id[w] \in failed' \ failed

\* C5 (partial-failure isolation): a page whose create_page failed is never
\* pushed and gets no directory; the worker that met the failure is back at
\* the top of its loop, claiming the next index; the pipeline still reaches
\* its return, and there every other page of [0, num_pages) has been pushed
\* once and written once, with its text_layer.txt in place.
C5_PartialFailure ==
    /\ [](\A k \in failed :
            pushed[k] = 0 /\ written[k] = 0 /\ \A f \in DocFiles : f.page_id /= k)
    /\ []((Returning /\ failed /= {}) =>
            \A p \in (0..(num_pages - 1)) \ failed :
                pushed[p] = 1 /\ written[p] = 1 /\ PageFile(p) \in files)
    /\ [][\A w \in Workers : NoPageStep(w) => wpc'[w] = "fetch"]_vars
    /\ (failed /= {}) ~> (Returning /\ ThreadsGone)

C5_Witness ==
    /\ Returning
    /\ failed /= {}
    /\ \E p \in 0..(num_pages - 1) : p \notin failed /\ PageFile(p) \in files

\* C6 (document-open failure): the step in which load_from_file fails starts
\* no worker and no writer, pushes and writes nothing and leaves
\* process_directory at its loop, ready for the next entry; the document
\* never gets an output file; and a run in which documents failed to open
\* still ends with exit code 0.
C6_OpenFailure ==
    /\ [](\A d \in cerr : \A f \in files : f.pdf_name /= d)
    /\ []((main_pc = "exit" /\ cerr /= {}) => exit_code = 0)
    /\ [][cerr' /= cerr =>
            /\ main_pc' = "iter"
            /\ files' = files
            /\ writer_pc' = "idle"
            /\ \A w \in Workers : wpc'[w] = "idle"
            /\ queue_' = <<>>
            /\ pushed' = ZeroCount
            /\ written' = ZeroCount]_vars

C6_Witness ==
    /\ main_pc = "exit"
    /\ exit_code = 0
    /\ 1 \in cerr
    /\ \E f \in files : f.pdf_name = 2

\* the step in which client c returns from pop
PopReturns(c) == cpc[c] = "pop" /\ cpc'[c] = "ready"

\* C7 (pop blocking semantics): a pop call returns only from a state in which
\* the queue is not empty or finished_ is set; it returns true exactly when
\* the queue is not empty at that moment and false exactly when the queue is
\* empty and finished_ is set.
C7_PopSemantics ==
    [][\A c \in Clients : PopReturns(c) =>
            /\ queue_ /= <<>> \/ finished_
            /\ (cret'[c] = "true") <=> (queue_ /= <<>>)
            /\ (cret'[c] = "false") <=> (queue_ = <<>> /\ finished_)]_vars

C7_Witness ==
    /\ finished_
    /\ \E c \in Clients, d \in Clients : cret[c] = "true" /\ cret[d] = "false"

\* C8 as claimed (end is sticky): once a pop has returned false, every pop
\* that returns afterwards returns false.
C8_EndIsSticky ==
    [][\A c \in Clients : (ended /\ PopReturns(c)) => cret'[c] = "false"]_vars

\* C8 as amended: pop returns false only from a finished, empty queue, and
\* from then on, as long as no item is pushed, the queue stays finished and
\* empty with nobody blocked in the wait, so every pop that returns, returns
\* false.
C8_EndIsStickyUntilPush ==
    /\ [][\A c \in Clients :
            (cpc[c] = "pop" /\ cret'[c] = "false") => (finished_ /\ queue_ = <<>>)]_vars
    /\ []((ended /\ ~late_push) => (finished_ /\ queue_ = <<>> /\ waiters = {}))
    /\ [][\A c \in Clients :
            (ended /\ ~late_push /\ PopReturns(c)) => cret'[c] = "false"]_vars

C8_Witness ==
    /\ ended
    /\ ~late_push
    /\ \A c \in Clients : cpc[c] = "ready" /\ cret[c] = "false"

\* the step in which some client's set_finished call runs lines 71-73
FinishStep == \E c \in Clients : cpc[c] = "finish" /\ cpc'[c] = "ready"

\* C9 (set_finished is idempotent): a set_finished call on a queue that is
\* already finished leaves the queue's contents, the flag (true) and the set
\* of blocked threads as they were, so the pops that follow see the state one
\* call leaves.
C9_SetFinishedIdempotent ==
    [][(FinishStep /\ finished_) =>
            (finished_' = TRUE /\ queue_' = queue_ /\ waiters' = waiters)]_vars

C9_Witness ==
    /\ refinished
    /\ finished_
    /\ queue_ /= <<>>

\* item k is in the hands of a client that has not yet run line 56 for it
BeingPushed(k) == \E c \in Clients : cpc[c] = "push" /\ citem[c] = k

\* C10 (multi-producer / multi-consumer safety): every item a push has
\* queued is either still in the queue, once, or has been returned by exactly
\* one pop call; no item is returned twice; once set_finished has run nobody
\* is left blocked in the wait, and a consumer that finds the finished queue
\* empty can only return false.
C10_ChannelSafety ==
    /\ \A k \in Items :
        /\ popped[k] <= 1
        /\ InQueue(k) + popped[k] =
            (IF k <= next_item /\ ~BeingPushed(k) THEN 1 ELSE 0)
    /\ finished_ => waiters = {}
    /\ \A c \in Clients :
        (cpc[c] = "pop" /\ finished_ /\ queue_ = <<>>) =>
            (ENABLED client_pop_end(c) /\ ~ENABLED client_pop_wait(c)
                /\ ~ENABLED client_pop_item(c))

C10_Witness ==
    /\ finished_
    /\ next_item = MaxItems
    /\ \A k \in Items : popped[k] = 1
    /\ \E c \in Clients, d \in Clients : c /= d /\ cret[c] = "true" /\ cret[d] = "true"

\* C11 (single-writer exclusivity): the files under the output directory
\* change only in a step of the writer thread's loop body, which writes the
\* one page it holds, of the current document; no step of a worker or of the
\* coordinator changes them; and a writer thread is started only by the
\* coordinator at line 138, once per pipeline, so never two at a time.
C11_SingleWriter ==
    /\ [][files' /= files =>
            /\ writer_pc = "write" /\ writer_pc' = "pop_lock"
            /\ UNCHANGED <<wpc, main_pc>>
            /\ files' \ files = {result}
            /\ result.pdf_name = pdf_name]_vars
    /\ [][(writer_pc = "idle" /\ writer_pc' /= "idle") =>
            (main_pc = "spawn" /\ main_pc' = "join_workers")]_vars
    /\ [][(writer_pc /= "idle" /\ writer_pc' = "idle") =>
            (writer_pc = "done" /\ main_pc = "delete_doc")]_vars

C11_Witness ==
    /\ writer_pc = "write"
    /\ result.pdf_name = pdf_name
    /\ \E w \in Workers : wpc[w] = "push" /\ mutex_ = WorkerT(w)

\* the worker threads that exist: started and not yet destroyed
WorkerThreads == {w \in Workers : wpc[w] /= "idle"}

\* process_pdf is between the construction of its queue and its return
InPipeline ==
    main_pc \in {"spawn", "join_workers", "finish_lock", "finish", "join_writer",
                 "delete_doc"}

\* C12 (sequential documents, bounded threads): process_pdf is entered for
\* a document only from the directory loop, where no thread of an earlier
\* document exists and nothing is queued; every thread, every queued result
\* and the result the writer holds belong to the one document being
\* processed; and the worker threads never outnumber thread_count.
C12_Sequential ==
    /\ ~InPipeline =>
        /\ WorkerThreads = {}
        /\ writer_pc = "idle"
        /\ queue_ = <<>>
        /\ mutex_ = NoThread
    /\ InPipeline =>
        /\ pdf_name = entry_no
        /\ \A i \in DOMAIN queue_ : queue_[i].pdf_name = pdf_name
        /\ result = NoResult \/ result.pdf_name = pdf_name
    /\ Cardinality(WorkerThreads) = spawned
    /\ spawned <= (IF thread_count > 0 THEN thread_count ELSE 0)

C12_Witness ==
    /\ entry_no = 2
    /\ main_pc = "join_workers"
    /\ thread_count = 2
    /\ Cardinality(WorkerThreads) = 2
    /\ \E f \in files : f.pdf_name = 1
    /\ queue_ /= <<>>

\* C13 as claimed (invocation errors): main returns 1, without creating the
\* output directory and without reading the input directory, whenever argc
\* is not that of exactly three arguments or the input directory is missing
\* or not a directory.
C13_InvocationErrors ==
    [][(main_pc = "main" /\ (argc /= MinArgc \/ ~input_ok)) =>
            /\ main_pc' = "exit"
            /\ exit_code' = 1
            /\ out_created' = FALSE
            /\ entry_no' = 0]_vars

\* the worker threads have all left their loops (or were never started)
NoWorkerRuns == \A w \in Workers : wpc[w] \in {"idle", "done"}

\* C14 (shutdown ordering): the coordinator is in set_finished, and
\* finished_ is true, only with every worker thread exited; while the queue
\* is finished no step pushes: the push counts stay and the queue does not
\* grow, so whoever sees finished_ = true sees every push complete.
C14_ShutdownOrder ==
    /\ [](main_pc \in {"finish_lock", "finish"} => NoWorkerRuns)
    /\ [](finished_ => NoWorkerRuns)
    /\ [][(finished_ /\ finished_') =>
            (pushed' = pushed /\ Len(queue_') <= Len(queue_))]_vars

C14_Witness ==
    /\ finished_
    /\ writer_pc = "pop"
    /\ Len(queue_) >= 2
    /\ thread_count >= 2

\* C15 (the writer drains before it exits): the writer thread is done only
\* with finished_ true, the queue empty, nothing in its hands, every worker
\* exited and every pushed result written as often as it was pushed; so this
\* holds when the coordinator's join on the writer returns.
C15_WriterDrains ==
    /\ writer_pc = "done" =>
        /\ finished_
        /\ queue_ = <<>>
        /\ result = NoResult
        /\ NoWorkerRuns
        /\ \A p \in Indexes : written[p] = pushed[p]
    /\ main_pc = "delete_doc" => writer_pc = "done"

C15_Witness ==
    /\ writer_pc = "done"
    /\ main_pc = "join_writer"
    /\ \E p \in Indexes, q \in Indexes : p /= q /\ written[p] = 1 /\ written[q] = 1

\* C16 (push never blocks the producer): a worker inside push holds the mutex
\* and can run lines 56-58 whatever the length of the queue; the writer holds
\* the mutex only between taking it in pop and the wait or return of pop,
\* never while it is blocked in the wait nor while it writes files, and the
\* coordinator only inside set_finished; whoever holds the mutex can take the
\* step that releases it, so under fair scheduling the mutex is always freed
\* again and a worker can take it when it is free; only the thread in pop's
\* wait is ever suspended on the condition variable.
C16_PushNeverBlocks ==
    /\ [](\A w \in Workers :
            /\ (wpc[w] = "push") <=> (mutex_ = WorkerT(w))
            /\ wpc[w] = "push" => ENABLED worker_push(w)
            /\ (wpc[w] = "create_page" /\ mutex_ = NoThread)
                    => ENABLED worker_push_lock(w))
    /\ []((mutex_ = WriterT) <=> (writer_pc = "pop"))
    /\ [](writer_pc = "pop" => ENABLED WriterStep)
    /\ []((mutex_ = MainT) <=> (main_pc = "finish"))
    /\ [](main_pc = "finish" => ENABLED finish)
    /\ [](waiters \subseteq {WriterT})
    /\ [](WriterT \in waiters => writer_pc = "pop_wait")
    /\ (mutex_ /= NoThread) ~> (mutex_ = NoThread)

C16_Witness ==
    /\ Len(queue_) >= 1
    /\ writer_pc = "pop_lock"
    /\ \E w \in Workers : wpc[w] = "push" /\ mutex_ = WorkerT(w)

\* worker w has not called fetch_add yet (line 120)
BeforeFirstFetch(w) == wpc[w] = "fetch" /\ page_id[w] = -1

\* the indexes of the current document whose page create_page opened
OpenedPages == {p \in 0..(num_pages - 1) : p \notin failed}

\* C17 (worker count independent of page count): a worker whose first
\* fetch_add returns an index >= num_pages leaves its loop in that step, with
\* nothing opened, pushed or queued; a worker only ever opens or pushes an
\* index below num_pages and a worker that left its loop holds an index
\* >= num_pages and does nothing more; and when process_pdf returns, for any
\* worker count >= 1 the results pushed and the files written are those of
\* the pages create_page opened, whatever the worker count.
C17_WorkerCountIndependent ==
    /\ [][\A w \in Workers :
            (BeforeFirstFetch(w) /\ current_page >= num_pages
                                 /\ wpc'[w] /= wpc[w]) =>
                /\ wpc'[w] = "done"
                /\ page_id'[w] = current_page
                /\ UNCHANGED <<pushed, failed, queue_, files>>]_vars
    /\ [][\A w \in Workers :
            wpc[w] = "done" => /\ wpc'[w] \in {"done", "idle"}
                               /\ wpc'[w] = "idle" => Returning]_vars
    /\ [](\A w \in Workers :
            /\ wpc[w] \in {"create_page", "push"} =>
                    (page_id[w] >= 0 /\ page_id[w] < num_pages)
            /\ wpc[w] = "done" => page_id[w] >= num_pages)
    /\ []((Returning /\ thread_count >= 1) =>
            /\ \A p \in Indexes : pushed[p] = IF p \in OpenedPages THEN 1 ELSE 0
            /\ DocFiles = {PageFile(p) : p \in OpenedPages})

C17_Witness ==
    /\ thread_count = 2
    /\ num_pages = 1
    /\ \E w \in Workers, v \in Workers :
        /\ wpc[w] = "push" /\ page_id[w] = 0
        /\ wpc[v] = "done" /\ page_id[v] = 1

\* the workers of the current document that have left their loop (line 121)
ExitedWorkers == {w \in Workers : wpc[w] = "done"}

\* the join loop of lines 141-143 is over
WorkersJoined ==
    main_pc \in {"finish_lock", "finish", "join_writer", "delete_doc"}

\* C18 as stated, for every worker count: during a document the counter
\* never exceeds num_pages + thread_count, and equals it once all workers
\* have exited.
C18_CounterReachesSum ==
    /\ InPipeline => current_page <= num_pages + thread_count
    /\ WorkersJoined => current_page = num_pages + thread_count

\* C18 (the shared counter), for a worker count >= 1: during a document
\* current_page never decreases; the workers that have left their loop are
\* as many as the fetch_add calls that returned an index >= num_pages, one
\* each; so the counter never exceeds num_pages + thread_count and equals
\* it once all workers have exited.  For a worker count <= 0 no fetch_add
\* runs and the counter stays 0.
C18_CounterBounded ==
    /\ [][pdf_name' = pdf_name => current_page' >= current_page]_vars
    /\ [](InPipeline =>
            /\ current_page >= 0
            /\ Cardinality(ExitedWorkers) =
                    (IF current_page > num_pages THEN current_page - num_pages
                     ELSE 0)
            /\ \A w \in ExitedWorkers, v \in ExitedWorkers :
                    w /= v => page_id[w] /= page_id[v])
    /\ []((InPipeline /\ thread_count >= 1) =>
            current_page <= num_pages + thread_count)
    /\ []((WorkersJoined /\ thread_count >= 1) =>
            current_page = num_pages + thread_count)
    /\ []((InPipeline /\ thread_count <= 0) => current_page = 0)

C18_Witness ==
    /\ WorkersJoined
    /\ thread_count = 2
    /\ num_pages = 2
    /\ current_page = 4
    /\ Cardinality(ExitedWorkers) = 2

\* the thread count parsed at line 169 makes the loop of lines 132-135 empty
NoWorkersConfigured == thread_count <= 0

\* C19 (worker count 0 or negative): no worker thread ever exists, nothing is
\* claimed, pushed, queued or written; from the spawn loop process_pdf goes
\* straight to launching the writer, and under fair scheduling it then calls
\* set_finished, the writer ends and is joined, and process_pdf returns, also
\* for a document with pages.
C19_NoWorkers ==
    /\ [](NoWorkersConfigured =>
            /\ WorkerThreads = {}
            /\ spawned = 0
            /\ current_page = 0
            /\ queue_ = <<>>
            /\ result = NoResult
            /\ files = {}
            /\ \A p \in Indexes : claimed[p] = 0 /\ pushed[p] = 0)
    /\ [][(NoWorkersConfigured /\ main_pc = "spawn") =>
            (main_pc' = "join_workers" /\ writer_pc' = "pop_lock")]_vars
    /\ [][(NoWorkersConfigured /\ main_pc = "join_writer"
                                /\ main_pc' /= main_pc) =>
            (finished_ /\ writer_pc = "done" /\ main_pc' = "delete_doc")]_vars
    /\ (NoWorkersConfigured /\ main_pc = "spawn") ~>
            (Returning /\ finished_ /\ writer_pc = "done")

C19_Witness ==
    /\ Returning
    /\ NoWorkersConfigured
    /\ num_pages >= 2
    /\ finished_
    /\ writer_pc = "done"
    /\ files = {}

\* the step in which client c's push call runs lines 56-58
PushStep(c) == cpc[c] = "push" /\ cpc'[c] = "ready"

\* C20 (push after set_finished): finished_ is never reset; a push call runs
\* lines 56-58 whether or not finished_ is set, appends its item and leaves
\* the flag alone; and a pop that returns from a non-empty queue returns its
\* head with true, also on a finished queue on which an earlier pop has
\* already returned false.
C20_PushAfterFinished ==
    /\ [][finished_ => finished_']_vars
    /\ [](\A c \in Clients : cpc[c] = "push" => ENABLED client_push(c))
    /\ [][\A c \in Clients : PushStep(c) =>
            /\ queue_' = Append(queue_, process_page(0, citem[c]))
            /\ finished_' = finished_]_vars
    /\ [][\A c \in Clients :
            (PopReturns(c) /\ finished_ /\ queue_ /= <<>>) =>
                /\ cret'[c] = "true"
                /\ popped' = Bump(popped, Head(queue_).page_id)
                /\ queue_' = Tail(queue_)
                /\ ended' = ended]_vars

C20_Witness ==
    /\ finished_
    /\ ended
    /\ late_push
    /\ queue_ = <<>>
    /\ next_item = MaxItems
    /\ \A k \in Items : popped[k] = 1
    /\ \E c \in Clients : cpc[c] = "ready" /\ cret[c] = "true"

====
